---- MODULE Spec2Model ----
(***************************************************************************)
(* State-machine model of the OTA manager (src/gecl-ota-manager.c).        *)
(*                                                                         *)
(* Every update trigger starts one ota_handler_task; a handler that gets   *)
(* past payload validation and esp_https_ota_begin creates one ota_task.   *)
(* Handler h and the ota_task it created share the index h.  All tasks     *)
(* share the module globals: ota_event_group, ota_timeout_timer and        *)
(* reboot_timer.  Timer callbacks run in the FreeRTOS timer service task.  *)
(*                                                                         *)
(* The task watchdog of the platform is a fault handler outside            *)
(* this module and is not modelled.                                        *)
(*                                                                         *)
(* The boot check was_booted_after_ota_update is declared in               *)
(* src/include/gecl-ota-manager.h but has no definition in src/; it is     *)
(* modelled from section 4.4 of spec.md.  It runs at boot, before any      *)
(* trigger can arrive, and shares no state with an update session, so it   *)
(* has its own specification BootSpec.                                     *)
(***************************************************************************)
EXTENDS Naturals, FiniteSets, Sequences

\* Number of update triggers the environment may deliver (model bound).
MaxTriggers == 2

\* const int max_retries = 3;
max_retries == 3

Handlers == 1..MaxTriggers

\* const int OTA_COMPLETE_BIT = BIT0; const int OTA_FAILED_BIT = BIT1;
OTA_COMPLETE_BIT == "COMPLETE"
OTA_FAILED_BIT == "FAILED"

\* What a trigger's MQTT payload can be: empty, not JSON, JSON without a
\* string under this device's MAC key, or JSON naming a firmware URL.
Urls == {"fw_a"}
BadPayloads == {"empty", "badjson", "nokey"}
Payloads == BadPayloads \cup Urls

\* Platform faults between payload validation and xTaskCreate.
SetupFaults == {"none", "no_partition", "begin_fail"}

\* Results of esp_https_ota_perform.
PerformResults == {"InProgress", "Done", "Error"}

\* Where write_ota_timestamp_to_nvs can fail.
NvsFaults == {"none", "init", "open", "set", "commit"}

\* Addresses of the application partitions the platform can boot from.
PartitionAddrs == {"factory", "ota_0", "ota_1"}

\* Number of boot checks made in one boot cycle (model bound).
MaxChecks == 3

\* What the boot check reports.
BootReports == {"Baseline", "NoUpdateDetected", "UpdateConfirmed"}

VARIABLES
    hpc,            \* position of each ota_handler_task
    payload,        \* payload of the trigger that started the handler
    url,            \* url_buffer of the handler
    beginCalled,    \* whether the handler called esp_https_ota_begin
    attempt,        \* the handler's local attempt counter
    hbits,          \* value returned by the handler's xEventGroupWaitBits
    sess,           \* session state seen by the handler
    nFailed,        \* number of times the handler took the FAILED branch
    nStarted,       \* number of ota_task instances the handler created
    tpc,            \* position of each ota_task
    perf,           \* last result of esp_https_ota_perform in the task
    complete,       \* result of esp_https_ota_is_complete_data_received
    finishRes,      \* result of esp_https_ota_finish
    nvsRes,         \* result of write_ota_timestamp_to_nvs
    signalled,      \* event bit the task raised on exit
    handle,         \* state of the esp_https_ota handle of the session
    groupCreated,   \* ota_event_group != NULL
    bits,           \* bits set in ota_event_group
    otaTimerCreated,    \* ota_timeout_timer != NULL
    otaTimerActive,     \* xTimerStart(ota_timeout_timer) called, not expired
    rebootTimerCreated, \* reboot_timer != NULL
    rebootTimerActive,  \* xTimerStart(reboot_timer) called, not expired
    nRebootTimers,  \* reboot timer instances made by xTimerCreate
    timerSvcAlive,  \* the FreeRTOS timer service task exists
    mqttStopped,    \* esp_mqtt_client_stop was called
    wifiDisconnected,   \* esp_wifi_disconnect was called
    nvsTimestamp,   \* "ota_timestamp" key of the persistent store
    rebooted,       \* esp_restart ran
    bootRecord,     \* "boot_part" key of the persistent store
    activeAddr,     \* address of the partition the platform booted
    bootReports,    \* reports of the boot checks of this boot cycle
    bootWrite       \* outcome of the last boot check's record write

vars == <<hpc, payload, url, beginCalled, attempt, hbits, sess, nFailed,
          nStarted, tpc, perf, complete, finishRes, nvsRes, signalled,
          handle, groupCreated, bits, otaTimerCreated,
          otaTimerActive, rebootTimerCreated, rebootTimerActive,
          nRebootTimers, timerSvcAlive, mqttStopped, wifiDisconnected,
          nvsTimestamp, rebooted, bootRecord, activeAddr, bootReports,
          bootWrite>>

handlerVars == <<payload, url, beginCalled, attempt, sess, nFailed, nStarted>>
taskVars == <<tpc, perf, complete, finishRes, nvsRes, signalled, handle>>
timerVars == <<otaTimerCreated, otaTimerActive, rebootTimerCreated,
               rebootTimerActive, nRebootTimers, timerSvcAlive>>
netVars == <<mqttStopped, wifiDisconnected>>
bootVars == <<bootRecord, activeAddr, bootReports, bootWrite>>
otaVars == <<hpc, hbits, handlerVars, taskVars, groupCreated, bits, timerVars,
             netVars, nvsTimestamp, rebooted>>

\* The update-session state after boot: no handler, no task, no timer.
OtaInit ==
    /\ hpc = [h \in Handlers |-> "idle"]
    /\ payload = [h \in Handlers |-> "none"]
    /\ url = [h \in Handlers |-> "none"]
    /\ beginCalled = [h \in Handlers |-> FALSE]
    /\ attempt = [h \in Handlers |-> 0]
    /\ hbits = [h \in Handlers |-> {}]
    /\ sess = [h \in Handlers |-> "IDLE"]
    /\ nFailed = [h \in Handlers |-> 0]
    /\ nStarted = [h \in Handlers |-> 0]
    /\ tpc = [h \in Handlers |-> "none"]
    /\ perf = [h \in Handlers |-> "none"]
    /\ complete = [h \in Handlers |-> "unknown"]
    /\ finishRes = [h \in Handlers |-> "none"]
    /\ nvsRes = [h \in Handlers |-> "none"]
    /\ signalled = [h \in Handlers |-> "none"]
    /\ handle = [h \in Handlers |-> "none"]
    /\ groupCreated = FALSE
    /\ bits = {}
    /\ otaTimerCreated = FALSE
    /\ otaTimerActive = FALSE
    /\ rebootTimerCreated = FALSE
    /\ rebootTimerActive = FALSE
    /\ nRebootTimers = 0
    /\ timerSvcAlive = TRUE
    /\ mqttStopped = FALSE
    /\ wifiDisconnected = FALSE
    /\ nvsTimestamp = "absent"
    /\ rebooted = FALSE

\* The update sessions are studied on a device whose boot record is already
\* up to date.
Init ==
    /\ OtaInit
    /\ activeAddr = "factory"
    /\ bootRecord = "factory"
    /\ bootReports = << >>
    /\ bootWrite = "none"

----------------------------------------------------------------------------
\* Derived notions.

\* A session exists and has not reached COMPLETE or FAILED.
SessionActive(h) == sess[h] = "ACTIVE"

\* An ota_task exists (created and not yet deleted).
TaskAlive(t) == tpc[t] \in {"start", "perform", "finalize"}

----------------------------------------------------------------------------
\* xEventGroupSetBits(ota_event_group, b), called when the handler positions
\* are hp.  Every task blocked in xEventGroupWaitBits whose wait condition is
\* met is unblocked with the new bit value; the bits those waiters asked to
\* clear on exit (both bits) are cleared afterwards.
SetBits(b, hp) ==
    LET nb == bits \cup {b}
        W == {h \in Handlers : hp[h] = "blocked"}
    IN /\ hpc' = [h \in Handlers |-> IF h \in W THEN "got" ELSE hp[h]]
       /\ hbits' = [h \in Handlers |-> IF h \in W THEN nb ELSE hbits[h]]
       /\ bits' = IF W = {} THEN nb ELSE {}

----------------------------------------------------------------------------
\* ota_handler_task

\* Mutant of PayloadValid: the payload checks are missing.
PayloadValid_Any(p) == p \in Payloads

\* The payload checks of ota_handler_task: non-empty, parses as JSON, and has
\* a string value under this device's MAC address.
PayloadValid(p) == p \in Urls

\* Mutant of RetryAllowed: gives up one attempt early.
RetryAllowed_Early(a) == a < max_retries - 1

\* if (attempt < max_retries) after attempt++: retry, else give up.
RetryAllowed(a) == a < max_retries

\* while (attempt < max_retries)
LoopCond(a) == a < max_retries

\* attempt++
NextAttempt(a) == a + 1

\* A trigger arrives: ota_handler_task runs from its entry to the creation of
\* ota_task, or to the vTaskDelete(NULL) of a rejected trigger.
Trigger(h) ==
    /\ ~rebooted
    /\ UNCHANGED bootVars
    /\ hpc[h] = "idle"
    /\ \A k \in Handlers : k < h => hpc[k] # "idle"
    /\ \E p \in Payloads :
        /\ payload' = [payload EXCEPT ![h] = p]
        /\ IF ~PayloadValid(p)
           THEN /\ hpc' = [hpc EXCEPT ![h] = "deleted"]
                /\ sess' = [sess EXCEPT ![h] = "REJECTED"]
                /\ UNCHANGED <<url, beginCalled, groupCreated, handle, tpc,
                               nStarted>>
           ELSE /\ url' = [url EXCEPT ![h] = p]
                /\ \E f \in SetupFaults :
                    IF f = "no_partition"
                    THEN /\ hpc' = [hpc EXCEPT ![h] = "deleted"]
                         /\ sess' = [sess EXCEPT ![h] = "REJECTED"]
                         /\ UNCHANGED <<beginCalled, groupCreated, handle,
                                        tpc, nStarted>>
                    ELSE /\ groupCreated' = TRUE
                         /\ beginCalled' = [beginCalled EXCEPT ![h] = TRUE]
                         /\ IF f = "begin_fail"
                            THEN /\ hpc' = [hpc EXCEPT ![h] = "deleted"]
                                 /\ sess' = [sess EXCEPT ![h] = "REJECTED"]
                                 /\ UNCHANGED <<handle, tpc, nStarted>>
                            ELSE /\ handle' = [handle EXCEPT ![h] = "open"]
                                 /\ tpc' = [tpc EXCEPT ![h] = "start"]
                                 /\ nStarted' = [nStarted EXCEPT ![h] = 1]
                                 /\ sess' = [sess EXCEPT ![h] = "ACTIVE"]
                                 /\ hpc' = [hpc EXCEPT ![h] = "wait"]
    /\ UNCHANGED <<attempt, hbits, nFailed, perf, complete, finishRes, nvsRes,
                   signalled, bits, timerVars, netVars,
                   nvsTimestamp, rebooted>>

\* xEventGroupWaitBits(ota_event_group, COMPLETE | FAILED, pdTRUE, pdFALSE,
\* portMAX_DELAY): returns at once, clearing the bits, when a bit is set;
\* blocks otherwise.
WaitBits(h) ==
    /\ ~rebooted
    /\ UNCHANGED bootVars
    /\ hpc[h] = "wait"
    /\ IF bits # {}
       THEN /\ hbits' = [hbits EXCEPT ![h] = bits]
            /\ bits' = {}
            /\ hpc' = [hpc EXCEPT ![h] = "got"]
       ELSE /\ hpc' = [hpc EXCEPT ![h] = "blocked"]
            /\ UNCHANGED <<hbits, bits>>
    /\ UNCHANGED <<handlerVars, taskVars, groupCreated, timerVars,
                   netVars, nvsTimestamp, rebooted>>

\* The body of the retry loop after xEventGroupWaitBits returned.
HandleBits(h) ==
    /\ ~rebooted
    /\ UNCHANGED bootVars
    /\ hpc[h] = "got"
    /\ IF OTA_COMPLETE_BIT \in hbits[h]
       THEN /\ sess' = [sess EXCEPT ![h] = "COMPLETE"]
            /\ hpc' = [hpc EXCEPT ![h] = "teardown"]
            /\ hbits' = [hbits EXCEPT ![h] = {}]
            /\ UNCHANGED <<attempt, nFailed, bits>>
       ELSE /\ OTA_FAILED_BIT \in hbits[h]
            /\ attempt' = [attempt EXCEPT ![h] = NextAttempt(attempt[h])]
            /\ IF RetryAllowed(attempt'[h])
               THEN /\ hpc' = [hpc EXCEPT ![h] =
                                 IF LoopCond(attempt'[h]) THEN "wait"
                                                          ELSE "teardown"]
                    /\ hbits' = [hbits EXCEPT ![h] = {}]
                    /\ UNCHANGED <<sess, nFailed, bits>>
               ELSE \* OTA_FAIL_EXIT(): the handler deletes itself
                    /\ sess' = [sess EXCEPT ![h] = "FAILED"]
                    /\ nFailed' = [nFailed EXCEPT ![h] = nFailed[h] + 1]
                    /\ SetBits(OTA_FAILED_BIT,
                               [hpc EXCEPT ![h] = "deleted"])
    /\ UNCHANGED <<payload, url, beginCalled, nStarted, taskVars, groupCreated, timerVars, netVars, nvsTimestamp, rebooted>>

\* esp_mqtt_client_stop(my_mqtt_client); esp_wifi_disconnect(); and the entry
\* of schedule_reboot(10000), where the handler reads the static reboot_timer
\* to decide whether a timer has to be created.  That read and the later
\* assignment are not protected by any lock, so another handler task can run
\* between them.
Teardown(h) ==
    /\ ~rebooted
    /\ UNCHANGED bootVars
    /\ hpc[h] = "teardown"
    /\ mqttStopped' = TRUE
    /\ wifiDisconnected' = TRUE
    /\ hpc' = [hpc EXCEPT ![h] = IF rebootTimerCreated THEN "sched_start"
                                                       ELSE "sched_create"]
    /\ UNCHANGED <<handlerVars, hbits, taskVars, groupCreated, bits,
                   timerVars, nvsTimestamp, rebooted>>

\* The rest of schedule_reboot(10000): xTimerCreate when the handler had read
\* NULL, then xTimerStart (which restarts a timer that is already running);
\* vTaskDelete(NULL).
ScheduleReboot(h) ==
    /\ ~rebooted
    /\ UNCHANGED bootVars
    /\ hpc[h] \in {"sched_create", "sched_start"}
    /\ rebootTimerCreated' = TRUE
    /\ rebootTimerActive' = TRUE
    /\ nRebootTimers' = IF hpc[h] = "sched_create" THEN nRebootTimers + 1
                                                  ELSE nRebootTimers
    /\ hpc' = [hpc EXCEPT ![h] = "deleted"]
    /\ UNCHANGED <<handlerVars, hbits, taskVars, groupCreated, bits,
                   otaTimerCreated, otaTimerActive, timerSvcAlive, netVars,
                   nvsTimestamp, rebooted>>

----------------------------------------------------------------------------
\* ota_task

\* OTA_FAIL_EXIT() / OTA_COMPLETE_EXIT() in ota_task: raise the bit, leave the
\* watchdog, delete the task.
TaskExit(t, b) ==
    /\ signalled' = [signalled EXCEPT ![t] = b]
    /\ tpc' = [tpc EXCEPT ![t] = "deleted"]
    /\ SetBits(b, hpc)

OTA_FAIL_EXIT(t) == TaskExit(t, OTA_FAILED_BIT)

OTA_COMPLETE_EXIT(t) == TaskExit(t, OTA_COMPLETE_BIT)

\* Mutant of FinishAllowed: finish is called whatever the check returned.
FinishAllowed_Always(c) == c \in {"yes", "no"}

\* if (esp_https_ota_is_complete_data_received(ota_handle)) ... finish
FinishAllowed(c) == c = "yes"

\* Return value of write_ota_timestamp_to_nvs when the store fails at `fault`.
write_ota_timestamp_to_nvs(fault) ==
    IF fault = "none" THEN "ESP_OK" ELSE "ESP_FAIL"

\* The values the "ota_timestamp" key can hold after the call: nvs_set_str
\* followed by a failed nvs_commit may or may not have reached the store.
StoredAfterWrite(fault, old) ==
    IF fault = "none" THEN {"set"}
    ELSE IF fault = "commit" THEN {old, "set"}
    ELSE {old}

\* Entry of ota_task: esp_task_wdt_add, schedule_ota_timeout.  The timer is
\* created on first use and (re)started on every call.
TaskStart(t) ==
    /\ ~rebooted
    /\ UNCHANGED bootVars
    /\ tpc[t] = "start"
    /\ otaTimerCreated' = TRUE
    /\ otaTimerActive' = TRUE
    /\ tpc' = [tpc EXCEPT ![t] = "perform"]
    /\ UNCHANGED <<hpc, hbits, handlerVars, perf, complete, finishRes, nvsRes,
                   signalled, handle, groupCreated, bits,
                   rebootTimerCreated, rebootTimerActive, nRebootTimers,
                   timerSvcAlive, netVars, nvsTimestamp, rebooted>>

\* One iteration of the while (1) loop around esp_https_ota_perform.  On
\* ESP_ERR_HTTPS_OTA_IN_PROGRESS the task delays and calls perform again,
\* which changes nothing this model records; perf keeps the result that ended
\* the loop.
Perform(t) ==
    /\ ~rebooted
    /\ UNCHANGED bootVars
    /\ tpc[t] = "perform"
    /\ \E r \in PerformResults :
        IF r = "InProgress"
        THEN UNCHANGED <<perf, tpc, signalled, hpc, hbits, bits>>
        ELSE /\ perf' = [perf EXCEPT ![t] = r]
             /\ IF r # "Done"
                THEN OTA_FAIL_EXIT(t)
                ELSE /\ tpc' = [tpc EXCEPT ![t] = "finalize"]
                     /\ UNCHANGED <<signalled, hpc, hbits, bits>>
    /\ UNCHANGED <<handlerVars, complete, finishRes, nvsRes, handle,
                   groupCreated, timerVars, netVars, nvsTimestamp, rebooted>>

\* Everything after the perform loop: the completeness check,
\* esp_https_ota_finish (which releases the handle whether it succeeds or
\* not), get_current_timestamp, write_ota_timestamp_to_nvs, and the exit
\* macro each branch ends in.
Finalize(t) ==
    /\ ~rebooted
    /\ UNCHANGED bootVars
    /\ tpc[t] = "finalize"
    /\ \E c \in {"yes", "no"} :
        /\ complete' = [complete EXCEPT ![t] = c]
        /\ IF ~FinishAllowed(c)
           THEN /\ OTA_FAIL_EXIT(t)
                /\ UNCHANGED <<finishRes, handle, nvsRes, nvsTimestamp>>
           ELSE /\ handle' = [handle EXCEPT ![t] = "closed"]
                /\ \E r \in {"ok", "err"} :
                    /\ finishRes' = [finishRes EXCEPT ![t] = r]
                    /\ IF r # "ok"
                       THEN /\ OTA_FAIL_EXIT(t)
                            /\ UNCHANGED <<nvsRes, nvsTimestamp>>
                       ELSE \E fault \in NvsFaults :
                            LET nvs_err == write_ota_timestamp_to_nvs(fault)
                            IN /\ nvsTimestamp' \in
                                      StoredAfterWrite(fault, nvsTimestamp)
                               /\ nvsRes' = [nvsRes EXCEPT ![t] =
                                       IF nvs_err = "ESP_OK" THEN "ok"
                                                             ELSE "err"]
                               /\ IF nvs_err # "ESP_OK"
                                  THEN OTA_FAIL_EXIT(t)
                                  ELSE OTA_COMPLETE_EXIT(t)
    /\ UNCHANGED <<handlerVars, perf, groupCreated, timerVars, netVars,
                   rebooted>>

----------------------------------------------------------------------------
\* Timer service task

\* ota_timeout_callback: OTA_FAIL_EXIT() in the timer service task.  The
\* vTaskDelete(NULL) deletes the calling task, which is the timer service
\* task; the ota_task instances are not touched.  The deadline has expired
\* for every ota_task that had armed the timer.
OtaTimeoutFire ==
    /\ ~rebooted
    /\ UNCHANGED bootVars
    /\ otaTimerActive
    /\ timerSvcAlive
    /\ otaTimerActive' = FALSE
    /\ timerSvcAlive' = FALSE
    /\ SetBits(OTA_FAILED_BIT, hpc)
    /\ UNCHANGED <<handlerVars, taskVars, groupCreated, otaTimerCreated,
                   rebootTimerCreated, rebootTimerActive, nRebootTimers,
                   netVars, nvsTimestamp, rebooted>>

\* reboot_callback: esp_restart().  The restart ends every task and timer and
\* loses everything held in RAM; only the persistent store survives.
RebootFire ==
    /\ ~rebooted
    /\ UNCHANGED bootVars
    /\ rebootTimerActive
    /\ timerSvcAlive
    /\ rebooted' = TRUE
    /\ hpc' = [h \in Handlers |-> "idle"]
    /\ payload' = [h \in Handlers |-> "none"]
    /\ url' = [h \in Handlers |-> "none"]
    /\ beginCalled' = [h \in Handlers |-> FALSE]
    /\ attempt' = [h \in Handlers |-> 0]
    /\ hbits' = [h \in Handlers |-> {}]
    /\ sess' = [h \in Handlers |-> "IDLE"]
    /\ nFailed' = [h \in Handlers |-> 0]
    /\ nStarted' = [h \in Handlers |-> 0]
    /\ tpc' = [h \in Handlers |-> "none"]
    /\ perf' = [h \in Handlers |-> "none"]
    /\ complete' = [h \in Handlers |-> "unknown"]
    /\ finishRes' = [h \in Handlers |-> "none"]
    /\ nvsRes' = [h \in Handlers |-> "none"]
    /\ signalled' = [h \in Handlers |-> "none"]
    /\ handle' = [h \in Handlers |-> "none"]
    /\ groupCreated' = FALSE
    /\ bits' = {}
    /\ otaTimerCreated' = FALSE
    /\ otaTimerActive' = FALSE
    /\ rebootTimerCreated' = FALSE
    /\ rebootTimerActive' = FALSE
    /\ nRebootTimers' = 0
    /\ timerSvcAlive' = TRUE
    /\ mqttStopped' = FALSE
    /\ wifiDisconnected' = FALSE
    /\ UNCHANGED nvsTimestamp

----------------------------------------------------------------------------
Next ==
    \/ \E h \in Handlers : Trigger(h)
    \/ \E h \in Handlers : WaitBits(h)
    \/ \E h \in Handlers : HandleBits(h)
    \/ \E h \in Handlers : Teardown(h)
    \/ \E h \in Handlers : ScheduleReboot(h)
    \/ \E t \in Handlers : TaskStart(t)
    \/ \E t \in Handlers : Perform(t)
    \/ \E t \in Handlers : Finalize(t)
    \/ OtaTimeoutFire
    \/ RebootFire

Spec == Init /\ [][Next]_vars

\* Scheduling: every task that is ready to run eventually runs, and a started
\* timer expires while the timer service task exists.  No fairness is put on
\* Perform: whether the executor ever stops reporting InProgress is the
\* executor's choice.
FairSpec ==
    /\ Spec
    /\ \A h \in Handlers :
        /\ WF_vars(WaitBits(h))
        /\ WF_vars(HandleBits(h))
        /\ WF_vars(Teardown(h))
        /\ WF_vars(ScheduleReboot(h))
        /\ WF_vars(TaskStart(h))
        /\ WF_vars(Finalize(h))
    /\ WF_vars(OtaTimeoutFire)
    /\ WF_vars(RebootFire)

----------------------------------------------------------------------------
\* Boot check (spec.md section 4.4).

\* The report for a persisted record rec and a running partition cur.
BootReportFor(rec, cur) ==
    IF rec = "absent" THEN "Baseline"
    ELSE IF rec = cur THEN "NoUpdateDetected"
    ELSE "UpdateConfirmed"

\* Mutant of BootRecordAfter: a confirmed update is not persisted.
BootRecordAfter_BaselineOnly(rec, cur, ok) ==
    IF ok /\ rec = "absent" THEN cur ELSE rec

\* The record after a check whose store write succeeded (ok) or failed: the
\* running address is persisted in the Baseline and UpdateConfirmed cases.
BootRecordAfter(rec, cur, ok) ==
    IF ok /\ rec # cur THEN cur ELSE rec

\* One boot check.  A failed record write is tolerated: the record keeps its
\* value and the check carries on, reporting what it found or
\* NoUpdateDetected.
was_booted_after_ota_update ==
    /\ Len(bootReports) < MaxChecks
    /\ \E ok \in BOOLEAN, rep \in BootReports :
         /\ bootRecord = activeAddr => ok
         /\ rep \in {BootReportFor(bootRecord, activeAddr)}
                    \cup (IF ok THEN {} ELSE {"NoUpdateDetected"})
         /\ bootRecord' = BootRecordAfter(bootRecord, activeAddr, ok)
         /\ bootReports' = Append(bootReports, rep)
         /\ bootWrite' = IF bootRecord = activeAddr THEN "none"
                         ELSE IF ok THEN "ok" ELSE "err"
    /\ UNCHANGED <<activeAddr, otaVars>>

\* The device restarts and the platform's boot selection starts partition a;
\* the persistent store keeps the record.
PlatformBoot(a) ==
    /\ activeAddr' = a
    /\ bootReports' = << >>
    /\ bootWrite' = "none"
    /\ UNCHANGED <<bootRecord, otaVars>>

BootInit ==
    /\ OtaInit
    /\ activeAddr \in PartitionAddrs
    /\ bootRecord \in PartitionAddrs \cup {"absent"}
    /\ bootReports = << >>
    /\ bootWrite = "none"

BootNext ==
    \/ was_booted_after_ota_update
    \/ \E a \in PartitionAddrs : PlatformBoot(a)

BootSpec == BootInit /\ [][BootNext]_vars

----------------------------------------------------------------------------
\* Properties

\* The session has reached COMPLETE or FAILED.
SessionTerminal(h) == sess[h] \in {"COMPLETE", "FAILED"}

\* The OTA deadline has expired for task t: the timer has fired (which is the
\* only way the timer service task ends), no task has started it again since,
\* and t, which armed it, is still in its perform loop or finalizing.
DeadlineExpired(t) ==
    /\ ~timerSvcAlive
    /\ ~otaTimerActive
    /\ tpc[t] \in {"perform", "finalize"}

\* C1: single-flight -- in every reachable state at most one session is
\* non-terminal and at most one ota_task is alive.
C1_SingleFlight ==
    /\ Cardinality({h \in Handlers : SessionActive(h)}) <= 1
    /\ Cardinality({t \in Handlers : TaskAlive(t)}) <= 1

\* C2: a trigger that arrives while an earlier session is non-terminal is
\* rejected, and neither it nor anything it starts changes the earlier
\* session's state, attempt count or target URL.
C2_BusyTriggerRejected ==
    [][\A h1, h2 \in Handlers :
         (h1 < h2 /\ SessionActive(h1)) =>
             /\ (hpc[h2] = "idle" /\ hpc'[h2] # "idle")
                    => (sess'[h2] = "REJECTED" /\ ~beginCalled'[h2])
             /\ (hpc'[h2] # hpc[h2] \/ tpc'[h2] # tpc[h2])
                    => /\ hpc'[h1] = hpc[h1]
                       /\ sess'[h1] = sess[h1]
                       /\ attempt'[h1] = attempt[h1]
                       /\ url'[h1] = url[h1]]_vars

C4_RetryStartsFreshAttempt ==
    \A h \in Handlers :
        (SessionActive(h) /\ hpc[h] \in {"wait", "blocked"})
            => nStarted[h] = attempt[h] + 1

\* C5: a handler that has ended with its session COMPLETE or FAILED has
\* stopped MQTT, disconnected WiFi and scheduled the reboot.
C5_TerminalTeardown ==
    \A h \in Handlers :
        (SessionTerminal(h) /\ hpc[h] = "deleted")
            => (mqttStopped /\ wifiDisconnected /\ rebootTimerActive)

\* C6: schedule_reboot is called, and the device restarts, only when a session
\* is terminal, teardown has been requested and no ota_task is still
\* downloading or finalizing.
C6_RebootOnlyAfterTerminal ==
    [][((\E h \in Handlers : /\ hpc[h] \in {"sched_create", "sched_start"}
                            /\ hpc'[h] = "deleted")
          \/ (~rebooted /\ rebooted'))
        => /\ \E h \in Handlers : SessionTerminal(h)
           /\ mqttStopped /\ wifiDisconnected
           /\ \A t \in Handlers : ~TaskAlive(t)]_vars

\* C7: scenario C -- once the deadline has expired for an attempt, then unless
\* the executor stops reporting InProgress the session becomes FAILED,
\* teardown runs and a reboot is scheduled.
C7_TimeoutLeadsToFailed ==
    \A t \in Handlers :
        DeadlineExpired(t) ~>
            \/ (sess[t] = "FAILED" /\ mqttStopped /\ wifiDisconnected
                    /\ rebootTimerActive)
            \/ tpc[t] # "perform"
            \/ rebooted

\* C8: the timer callback only signals -- it ends no task -- and once the
\* deadline has expired for an attempt its task accepts no further perform
\* result and does not call finish.
C8_AbortOnDeadline ==
    [][/\ timerSvcAlive => timerSvcAlive'
       /\ \A t \in Handlers :
            DeadlineExpired(t)
                => (perf'[t] = perf[t] /\ finishRes'[t] = finishRes[t])]_vars

\* C9: finish is called only after perform reported Done and the completeness
\* check returned true; on Done with incomplete data finish is not called and
\* the task ends with the failure event, as it does on a perform error.
C9_FinishOnlyWhenComplete ==
    \A t \in Handlers :
        /\ finishRes[t] # "none" => (perf[t] = "Done" /\ complete[t] = "yes")
        /\ (perf[t] = "Done" /\ complete[t] = "no")
             => /\ finishRes[t] = "none"
                /\ handle[t] = "open"
                /\ tpc[t] = "deleted"
                /\ signalled[t] = OTA_FAILED_BIT
        /\ perf[t] = "Error"
             => /\ finishRes[t] = "none"
                /\ tpc[t] = "deleted"
                /\ signalled[t] = OTA_FAILED_BIT

\* C9 witness: perform reported Done, the data was incomplete, and the task
\* ended with the failure event without calling finish.
C9_Witness ==
    \E t \in Handlers :
        /\ perf[t] = "Done" /\ complete[t] = "no"
        /\ finishRes[t] = "none" /\ signalled[t] = OTA_FAILED_BIT

\* C10: when finish succeeded and the timestamp write failed, the task raised
\* the completion event.
C10_StoreFailureKeepsOutcome ==
    \A t \in Handlers :
        (finishRes[t] = "ok" /\ nvsRes[t] = "err")
            => signalled[t] = OTA_COMPLETE_BIT

\* C11: a trigger whose payload is empty, is not JSON or lacks a string under
\* the device's MAC key is rejected before any session exists: begin is not
\* called, no ota_task is created; and while only such triggers have arrived
\* nothing has been torn down and no reboot is scheduled.
C11_BadPayloadRejected ==
    /\ \A h \in Handlers :
         payload[h] \in BadPayloads
            => /\ sess[h] = "REJECTED"
               /\ hpc[h] = "deleted"
               /\ ~beginCalled[h]
               /\ handle[h] = "none"
               /\ tpc[h] = "none"
               /\ nStarted[h] = 0
    /\ (\A h \in Handlers : payload[h] \in BadPayloads \cup {"none"})
            => /\ ~groupCreated
               /\ ~mqttStopped /\ ~wifiDisconnected
               /\ ~rebootTimerCreated /\ ~rebootTimerActive
               /\ ~otaTimerActive
               /\ bits = {}

\* C11 witness: every trigger delivered so far had a bad payload, one of each
\* of two kinds, and both were rejected.
C11_Witness ==
    /\ \E h \in Handlers : payload[h] = "nokey" /\ sess[h] = "REJECTED"
    /\ \E h \in Handlers : payload[h] = "badjson" /\ sess[h] = "REJECTED"

\* C12: scenario A -- once finish has succeeded for a session's attempt, the
\* device eventually restarts (through COMPLETE, teardown and the reboot
\* timer).
C12_SuccessLeadsToReboot ==
    \A t \in Handlers : (finishRes[t] = "ok") ~> rebooted

\* C14: an attempt that has ended in failure has released its download
\* handle.
C14_FailedAttemptReleasesHandle ==
    \A t \in Handlers :
        (tpc[t] = "deleted" /\ signalled[t] = OTA_FAILED_BIT)
            => handle[t] = "closed"

\* C15: write_ota_timestamp_to_nvs is called only by an attempt whose finish
\* succeeded and whose deadline has not expired.
C15_TimestampOnlyOnSuccess ==
    [][\A t \in Handlers :
         (nvsRes[t] = "none" /\ nvsRes'[t] # "none")
            => (finishRes'[t] = "ok" /\ ~DeadlineExpired(t))]_vars

\* The attempts of session h that have failed so far: its ota_task ended
\* with the failure event, or is still running after the deadline timer
\* fired.
FailedAttempts(h) ==
    IF \/ signalled[h] = OTA_FAILED_BIT
       \/ (tpc[h] \in {"perform", "finalize"} /\ ~timerSvcAlive)
    THEN 1 ELSE 0

\* C17: the attempt count never exceeds the number of attempts of the session
\* that have failed, and the deadline timer fires only while an attempt that
\* armed it is still running.
C17_CountMatchesFailures ==
    [][/\ \A h \in Handlers : attempt'[h] <= FailedAttempts(h)'
       /\ (timerSvcAlive /\ ~timerSvcAlive')
            => \E t \in Handlers : tpc[t] \in {"perform", "finalize"}]_vars

\* C18: a session that has started its attempt task eventually becomes
\* COMPLETE or FAILED with its handler task ended (or the device restarts).
C18_HandlerTerminates ==
    \A h \in Handlers :
        (sess[h] = "ACTIVE")
            ~> ((SessionTerminal(h) /\ hpc[h] = "deleted") \/ rebooted)

\* C19: once schedule_reboot has started the reboot timer the device
\* eventually restarts.
C19_ArmedRebootFires ==
    rebootTimerActive ~> rebooted

\* C13: at most one reboot timer instance exists, however many times
\* schedule_reboot is called; a call made while a reboot is pending starts
\* the same instance again.
C13_OneRebootTimer ==
    nRebootTimers <= 1

\* A step is a boot check.
BootCheckStep == Len(bootReports') = Len(bootReports) + 1

\* The report of the check made in this step.
NewReport == bootReports'[Len(bootReports')]

====
